---- MODULE Spec2Model ----
(***************************************************************************)
(* Model of model.py (KoBERT sentiment classifier): the attention-mask     *)
(* builder, the accuracy computation, the BERTDataset wrapper and the      *)
(* train/test loop of sentiment_analysis.                                  *)
(*                                                                         *)
(* Four specifications share the variables below:                          *)
(*   SpecMask     gen_attention_mask applied to bounded batches            *)
(*   SpecAcc      _calc_accuracy applied to bounded batches                *)
(*   SpecDataset  BERTDataset construction, indexing and length            *)
(*   Spec         one run of sentiment_analysis, statement by statement    *)
(* Each specification pins the variables of the other parts to Idle.       *)
(***************************************************************************)
EXTENDS Integers, Sequences, FiniteSets, TLC

VARIABLES
    pc,              \* position of the part under check
    \* gen_attention_mask
    token_ids,       \* batch of rows of token ids (long)
    valid_length,    \* one count per row
    attention_mask,  \* returned float tensor
    \* _calc_accuracy
    x,               \* probability rows
    y,               \* labels
    max_indices,     \* indices returned by torch.max(x, 1)
    train_acc,       \* returned ratio
    \* BERTDataset
    dataset,         \* the records handed to the constructor
    bert_tokenizer,  \* the tokenizer handed to the constructor, or "None"
    max_len,         \* max_seq_length of the transform
    result,          \* outcome of BERTDataset(...): "pending", "instance", "raised"
    sentence,        \* self.sentence
    labels,          \* self.labels
    encoded,         \* Encoded Examples the transform has produced
    item_i,          \* index of the last __getitem__ call, -1 before the first
    item,            \* what it returned
    length,          \* what the last __len__ call returned, -1 before the first
    \* sentiment_analysis: options, data, derived step counts
    batch_size, num_epochs, warmup_ratio, log_interval,
    data_train, data_test,
    t_total, warmup_steps,
    \* sentiment_analysis: locals
    e,               \* epoch index, -1 while unbound
    batch_id,        \* batch index, -1 while unbound
    it,              \* batches the running enumerate(...) has handed out
    segment_ids, label, out,
    train_accuracy, test_accuracy,
    \* model, optimizer, scheduler
    mode,            \* "train" or "eval" (model.training)
    no_grad,         \* inside "with torch.no_grad()"
    params,          \* version of the parameter state: one per optimizer update
    grads,           \* the batches <<e, batch_id>> whose gradients sit in .grad
    clipped,         \* whether the gradients in .grad have been clipped
    opt_steps,       \* optimizer.step() calls
    sched_steps,     \* scheduler.step() calls
    \* effects
    last_line,       \* the last line printed
    printed,         \* lines printed so far, by kind
    model_pt,        \* parameter version held by the file "model.pt", -1 if none
    n_saves,         \* torch.save calls
    \* history
    hist,            \* phase entries and batches, in the order they were started
    steps,           \* steps done so far in the current train batch
    train_batches,   \* train batches whose loop body has run to its end
    phase_sum,       \* sum of the per-batch accuracies of the current phase
    phase_count,     \* batches the current phase has accumulated
    n_zero_grad, n_backward, n_clip

maskVars == <<token_ids, valid_length, attention_mask>>
accVars  == <<x, y, max_indices, train_acc>>
dsIn     == <<dataset, bert_tokenizer, max_len>>
dsObj    == <<result, sentence, labels, encoded>>
dsOut    == <<item_i, item, length>>
dsVars   == <<dsIn, dsObj, dsOut>>
optVars  == <<batch_size, num_epochs, warmup_ratio, log_interval,
               data_train, data_test, t_total, warmup_steps>>
batchVars == <<token_ids, valid_length, attention_mask, segment_ids, label, out>>
trainState == <<params, grads, clipped, opt_steps, sched_steps,
                n_zero_grad, n_backward, n_clip>>
accumVars == <<train_accuracy, test_accuracy>>
ioVars   == <<last_line, printed, model_pt, n_saves>>
histVars == <<hist, steps, train_batches, phase_sum, phase_count>>
loopVars == <<optVars, e, batch_id, it, segment_ids, label, out, accumVars,
              mode, no_grad, trainState, ioVars, histVars>>
vars     == <<pc, maskVars, accVars, dsVars, loopVars>>

(***************************************************************************)
(* Bounds                                                                  *)
(***************************************************************************)
MaxRows    == 2     \* rows of a batch handed to gen_attention_mask
MaxSeqLen  == 2     \* sequence length of a batch
MaxBatch   == 2     \* rows of a batch handed to _calc_accuracy
MaxRecords == 2     \* records of a corpus handed to BERTDataset
MaxLen     == 4     \* max_len ranges over 3..MaxLen
MaxTrain   == 3     \* records of the train corpus of a run
MaxTest    == 3     \* records of the test corpus of a run
MaxEpochs  == 2     \* num_epochs ranges over 0..MaxEpochs

\* BERTClassifier's default num_classes: the width of a probability row
NumClasses == 2

\* token ids a batch handed to gen_attention_mask may hold
TokenIds == {1, 4}

\* probabilities in tenths (9 stands for 0.9)
ProbVals == {1, 2, 5, 8, 9}

Min(a, b) == IF a < b THEN a ELSE b
Max(a, b) == IF a > b THEN a ELSE b

(***************************************************************************)
(* Tensors.  A 2-d tensor is a sequence of rows; a float element is the    *)
(* pair <<"float", n>>, so that an integer tensor and its .float() image   *)
(* are different values.                                                   *)
(***************************************************************************)
Float(n) == <<"float", n>>

zeros_like(t) == [i \in 1..Len(t) |-> [j \in 1..Len(t[i]) |-> 0]]

to_float(t) == [i \in 1..Len(t) |-> [j \in 1..Len(t[i]) |-> Float(t[i][j])]]

\* row[:v] = val, with Python's slice rules: a stop beyond the end is
\* clamped, a negative stop counts from the end.
SliceStop(n, v) == IF v < 0 THEN Max(n + v, 0) ELSE Min(v, n)

SliceAssign_OffByOne(row, v, val) ==
    [j \in 1..Len(row) |-> IF j <= SliceStop(Len(row), v) + 1 THEN val ELSE row[j]]

SliceAssign(row, v, val) ==
    [j \in 1..Len(row) |-> IF j <= SliceStop(Len(row), v) THEN val ELSE row[j]]

\* for i, v in enumerate(valid_length): attention_mask[i][:v] = 1
RECURSIVE MaskLoop(_, _, _)
MaskLoop(mask, vl, i) ==
    IF i > Len(vl) THEN mask
    ELSE MaskLoop([mask EXCEPT ![i] = SliceAssign(mask[i], vl[i], 1)], vl, i + 1)

gen_attention_mask(t, vl) == to_float(MaskLoop(zeros_like(t), vl, 1))

(***************************************************************************)
(* SpecMask                                                                *)
(***************************************************************************)
Batches ==
    UNION { [1..r -> [1..l -> TokenIds]] : r \in 0..MaxRows, l \in 1..MaxSeqLen }

RowLen(t) == IF Len(t) = 0 THEN 0 ELSE Len(t[1])

MaskIdle == token_ids = <<>> /\ valid_length = <<>> /\ attention_mask = <<>>
AccIdle  == x = <<>> /\ y = <<>> /\ max_indices = <<>> /\ train_acc = <<>>
DsIdle   ==
    /\ dataset = <<>> /\ bert_tokenizer = "None" /\ max_len = 0
    /\ result = "pending" /\ sentence = <<>> /\ labels = <<>> /\ encoded = 0
    /\ item_i = -1 /\ item = <<>> /\ length = -1
LoopIdle ==
    /\ batch_size = 0 /\ num_epochs = 0 /\ warmup_ratio = 0 /\ log_interval = 0
    /\ data_train = <<>> /\ data_test = <<>> /\ t_total = 0 /\ warmup_steps = 0
    /\ e = -1 /\ batch_id = -1 /\ it = 0
    /\ segment_ids = <<>> /\ label = <<>> /\ out = <<>>
    /\ train_accuracy = <<>> /\ test_accuracy = <<>>
    /\ mode = "train" /\ no_grad = FALSE
    /\ params = 0 /\ grads = {} /\ clipped = FALSE
    /\ opt_steps = 0 /\ sched_steps = 0
    /\ last_line = <<>> /\ printed = <<>> /\ model_pt = -1 /\ n_saves = 0
    /\ hist = <<>> /\ steps = <<>> /\ train_batches = 0
    /\ phase_sum = <<>> /\ phase_count = 0
    /\ n_zero_grad = 0 /\ n_backward = 0 /\ n_clip = 0

InitMask ==
    /\ pc = "mask_call"
    /\ token_ids \in Batches
    /\ valid_length \in [1..Len(token_ids) -> 0..RowLen(token_ids)]
    /\ attention_mask = <<>>
    /\ AccIdle
    /\ DsIdle
    /\ LoopIdle

CallMask ==
    /\ pc = "mask_call"
    /\ attention_mask' = gen_attention_mask(token_ids, valid_length)
    /\ pc' = "mask_done"
    /\ UNCHANGED <<token_ids, valid_length, accVars, dsVars, loopVars>>

NextMask == CallMask

SpecMask == InitMask /\ [][NextMask]_vars

\* C1: the mask has the shape of token_ids and holds 1.0 exactly at the
\* positions j < valid_length[i] of every row i (0-based j), 0.0 elsewhere;
\* the right-hand side does not mention the token id values.
C1_MaskContract ==
    pc = "mask_done" =>
        /\ Len(attention_mask) = Len(token_ids)
        /\ \A i \in 1..Len(token_ids) :
            /\ Len(attention_mask[i]) = Len(token_ids[i])
            /\ \A j \in 1..Len(token_ids[i]) :
                attention_mask[i][j] =
                    IF j - 1 < valid_length[i] THEN Float(1) ELSE Float(0)
            /\ Cardinality({j \in 1..Len(token_ids[i]) :
                               attention_mask[i][j] = Float(1)}) = valid_length[i]

\* a two-row batch with non-zero token ids, one all-zero row (v = 0) and
\* one all-one row (v = L)
C1_Witness ==
    /\ pc = "mask_done"
    /\ Len(token_ids) = 2
    /\ RowLen(token_ids) = 2
    /\ token_ids[1][1] = 4
    /\ valid_length = <<0, 2>>
    /\ attention_mask = << <<Float(0), Float(0)>>, <<Float(1), Float(1)>> >>

(***************************************************************************)
(* _calc_accuracy                                                          *)
(***************************************************************************)
RowMax(row) == CHOOSE m \in {row[k] : k \in 1..Len(row)} :
                   \A k \in 1..Len(row) : row[k] <= m

\* max_vals, max_indices = torch.max(x, 1): the admissible index vectors
\* (0-based class indices).  Where a row holds its maximum twice, which of
\* the two indices comes back depends on the backend, so both are allowed.
torch_max(xx) ==
    { mi \in [1..Len(xx) -> 0..(NumClasses - 1)] :
        \A i \in 1..Len(xx) : xx[i][mi[i] + 1] = RowMax(xx[i]) }

\* a ratio num/den, as produced by the true division of two integers
Ratio(n, d) == [num |-> n, den |-> d]

calc_accuracy_Mismatches(mi, yy) ==
    Ratio(Cardinality({i \in 1..Len(mi) : mi[i] # yy[i]}), Len(mi))

\* (max_indices == y).sum() / max_indices.size()[0]
calc_accuracy(mi, yy) ==
    Ratio(Cardinality({i \in 1..Len(mi) : mi[i] = yy[i]}), Len(mi))

(***************************************************************************)
(* SpecAcc                                                                 *)
(***************************************************************************)
ProbRows == [1..NumClasses -> ProbVals]

InitAcc ==
    /\ pc = "acc_call"
    /\ \E n \in 1..MaxBatch :
        /\ x \in [1..n -> ProbRows]
        /\ y \in [1..n -> 0..(NumClasses - 1)]
    /\ max_indices = <<>>
    /\ train_acc = <<>>
    /\ MaskIdle
    /\ DsIdle
    /\ LoopIdle

CallAcc ==
    /\ pc = "acc_call"
    /\ \E mi \in torch_max(x) :
        /\ max_indices' = mi
        /\ train_acc' = calc_accuracy(mi, y)
    /\ pc' = "acc_done"
    /\ UNCHANGED <<x, y, maskVars, dsVars, loopVars>>

NextAcc == CallAcc

SpecAcc == InitAcc /\ [][NextAcc]_vars

\* C2: the result is (number of rows whose arg-max class equals the label)
\* divided by the number of rows N; it lies in {0/N, ..., N/N}; predictions
\* [[0.9,0.1],[0.2,0.8]] with labels [0,0] give 0.5.
C2_AccuracyContract ==
    pc = "acc_done" =>
        LET N == Len(x)
            hits == {i \in 1..N :
                        /\ \A k \in 1..NumClasses : x[i][k] <= x[i][y[i] + 1]
                        /\ max_indices[i] = y[i]}
        IN  /\ \A i \in 1..N : \A k \in 1..NumClasses :
                  x[i][k] <= x[i][max_indices[i] + 1]
            /\ train_acc.den = N
            /\ train_acc.num = Cardinality(hits)
            /\ train_acc.num \in 0..N
            /\ (x = << <<9, 1>>, <<2, 8>> >> /\ y = <<0, 0>>)
                  => 2 * train_acc.num = train_acc.den

C2_Witness ==
    /\ pc = "acc_done"
    /\ x = << <<9, 1>>, <<2, 8>> >>
    /\ y = <<0, 0>>
    /\ train_acc = Ratio(1, 2)

(***************************************************************************)
(* BERTDataset                                                             *)
(*                                                                         *)
(* A record is a sequence of fields as TSVDataset yields them: text.  A    *)
(* sentence field is a sequence of words, a label field a sequence of      *)
(* decimal digits.  nlp.data.BERTSentenceTransform is a collaborator; it   *)
(* is modelled by what it does with pad = True, pair = False: tokenize,    *)
(* truncate to max_len - 2, wrap in [CLS] .. [SEP], look the tokens up,    *)
(* pad to max_len.                                                         *)
(***************************************************************************)
Ok(v)  == [ok |-> TRUE, val |-> v]
Raised == [ok |-> FALSE, val |-> <<>>]

Vocab == [pad |-> 1, cls |-> 2, sep |-> 3, a |-> 4, b |-> 5]

Repeat(v, n) == [k \in 1..n |-> v]

\* transform([text]) -> (input_ids, valid_length, segment_ids); calling the
\* tokenizer raises when there is none
transform(tokenizer, maxlen, line) ==
    IF tokenizer = "None" THEN Raised
    ELSE LET text_a   == line[1]
             tokens_a == SubSeq(text_a, 1, Min(Len(text_a), maxlen - 2))
             ids      == <<Vocab.cls>> \o [k \in 1..Len(tokens_a) |-> Vocab[tokens_a[k]]]
                                      \o <<Vocab.sep>>
             vl       == Len(ids)
         IN  Ok(<< ids \o Repeat(Vocab.pad, maxlen - vl),
                   vl,
                   Repeat(0, maxlen) >>)

\* np.int32(text): the decimal value (every label field of the bounded
\* corpus fits 32 bits)
RECURSIVE np_int32(_)
np_int32(digits) ==
    IF Len(digits) = 0 THEN 0
    ELSE 10 * np_int32(SubSeq(digits, 1, Len(digits) - 1)) + digits[Len(digits)]

\* the first k with a failed transform, or n + 1
FirstRaise(outs) ==
    IF \E k \in 1..Len(outs) : ~outs[k].ok
    THEN CHOOSE k \in 1..Len(outs) : ~outs[k].ok /\ \A m \in 1..(k - 1) : outs[m].ok
    ELSE Len(outs) + 1

getitem_FirstLabel(i) == sentence[i + 1] \o <<labels[1]>>

\* __getitem__: self.sentence[i] + (self.labels[i],)
getitem(i) == sentence[i + 1] \o <<labels[i + 1]>>

\* __len__: len(self.labels)
len == Len(labels)

\* A constructor that answers a missing tokenizer with a null result.
Construct_NullReturn(sentence_idx, label_idx, pad, pair) ==
    /\ pc = "ds_new"
    /\ IF bert_tokenizer = "None"
       THEN /\ result' = "null"
            /\ UNCHANGED <<sentence, labels, encoded>>
       ELSE /\ result' = "instance"
            /\ sentence' = [k \in 1..Len(dataset) |->
                  transform(bert_tokenizer, max_len, <<dataset[k][sentence_idx + 1]>>).val]
            /\ labels' = [k \in 1..Len(dataset) |-> np_int32(dataset[k][label_idx + 1])]
            /\ encoded' = Len(dataset)
    /\ pc' = "ds_ready"
    /\ UNCHANGED <<dsIn, dsOut, maskVars, accVars, loopVars>>

\* BERTDataset.__init__.  The transform is built first; one release of the
\* library reads tokenizer.vocab there (eager), another only on the first
\* call, so with no tokenizer the exception leaves either line 42 or the
\* first record of line 43.  An exception leaves no object behind.
Construct(sentence_idx, label_idx, pad, pair) ==
    /\ pc = "ds_new"
    /\ \E eager \in BOOLEAN :
        LET outs == [k \in 1..Len(dataset) |->
                       transform(bert_tokenizer, max_len, <<dataset[k][sentence_idx + 1]>>)]
            stop == FirstRaise(outs)
        IN  IF (eager /\ bert_tokenizer = "None") \/ stop <= Len(dataset)
            THEN /\ result' = "raised"
                 /\ encoded' = IF eager /\ bert_tokenizer = "None" THEN 0 ELSE stop - 1
                 /\ UNCHANGED <<sentence, labels>>
            ELSE /\ result' = "instance"
                 /\ sentence' = [k \in 1..Len(dataset) |-> outs[k].val]
                 /\ labels' = [k \in 1..Len(dataset) |->
                                  np_int32(dataset[k][label_idx + 1])]
                 /\ encoded' = Len(dataset)
    /\ pc' = "ds_ready"
    /\ UNCHANGED <<dsIn, dsOut, maskVars, accVars, loopVars>>

GetItem ==
    /\ pc = "ds_ready" /\ result = "instance"
    /\ \E i \in 0..(len - 1) :
        /\ item_i' = i
        /\ item' = getitem(i)
    /\ UNCHANGED <<pc, dsIn, dsObj, length, maskVars, accVars, loopVars>>

CallLen ==
    /\ pc = "ds_ready" /\ result = "instance"
    /\ length' = len
    /\ UNCHANGED <<pc, dsIn, dsObj, item_i, item, maskVars, accVars, loopVars>>

(***************************************************************************)
(* SpecDataset                                                             *)
(***************************************************************************)
SentenceFields == { <<>>, <<"a">>, <<"b", "a">>, <<"a", "b", "b">> }
LabelFields    == { <<0>>, <<1>>, <<1, 0>> }
Records        == { <<s, l>> : s \in SentenceFields, l \in LabelFields }

InitDataset ==
    /\ pc = "ds_new"
    /\ \E n \in 0..MaxRecords : dataset \in [1..n -> Records]
    /\ bert_tokenizer \in {"None", "BERTSPTokenizer"}
    /\ max_len \in 3..MaxLen
    /\ result = "pending" /\ sentence = <<>> /\ labels = <<>> /\ encoded = 0
    /\ item_i = -1 /\ item = <<>> /\ length = -1
    /\ MaskIdle
    /\ AccIdle
    /\ LoopIdle

\* data_train = BERTDataset(dataset_train, 0, 1, bert_tokenizer, max_len, pad=True, pair=False)
NextDataset ==
    \/ Construct(0, 1, TRUE, FALSE)
    \/ GetItem
    \/ CallLen

SpecDataset == InitDataset /\ [][NextDataset]_vars

\* what record k (1-based) encodes to, read off the record itself
EncodedOf(k) ==
    transform(bert_tokenizer, max_len, <<dataset[k][1]>>).val
        \o <<np_int32(dataset[k][2])>>

\* C4: a dataset built from n records has length n; item i is the 4-tuple of
\* the transform's three outputs for record i's sentence and the integer
\* value of record i's label, in record order, at every call.
C4_DatasetContract ==
    result = "instance" =>
        /\ len = Len(dataset)
        /\ length >= 0 => length = Len(dataset)
        /\ \A i \in 0..(Len(dataset) - 1) :
              /\ getitem(i) = EncodedOf(i + 1)
              /\ Len(getitem(i)) = 4
        /\ item_i >= 0 => item = EncodedOf(item_i + 1)

\* two different records, the second one fetched, the length taken
C4_Witness ==
    /\ result = "instance"
    /\ dataset = << << <<"a">>, <<0>> >>, << <<"a", "b", "b">>, <<1, 0>> >> >>
    /\ max_len = 4
    /\ item_i = 1
    /\ item = << <<2, 4, 5, 3>>, 4, <<0, 0, 0, 0>>, 10 >>
    /\ length = 2

\* C5 as stated: construction without a tokenizer signals the condition by
\* returning an empty/null result rather than raising.
C5_NullResult ==
    (bert_tokenizer = "None" /\ result # "pending") => result = "null"

\* C5 (amended): construction without a tokenizer never returns a null
\* result and never produces an Encoded Example; with at least one record
\* it ends in an exception, so no dataset object exists.
C5_RaisesWithoutTokenizer ==
    (bert_tokenizer = "None" /\ result # "pending") =>
        /\ result # "null"
        /\ encoded = 0 /\ sentence = <<>> /\ labels = <<>>
        /\ Len(dataset) > 0 => result = "raised"

C5_Witness ==
    /\ bert_tokenizer = "None"
    /\ Len(dataset) = 2
    /\ result = "raised"
    /\ pc = "ds_ready"

(***************************************************************************)
(* Ratios: accuracies are kept exact, as reduced fractions.                *)
(***************************************************************************)
RECURSIVE Gcd(_, _)
Gcd(a, b) == IF b = 0 THEN a ELSE Gcd(b, a % b)

Norm(n, d) == LET g == Gcd(n, d) IN Ratio(n \div g, d \div g)

Zero == Ratio(0, 1)

RatioAdd(a, b) == Norm(a.num * b.den + b.num * a.den, a.den * b.den)

\* a / k for an integer k > 0
RatioDiv(a, k) == Norm(a.num, a.den * k)

RatioMul(a, k) == Norm(a.num * k, a.den)

(***************************************************************************)
(* torch.utils.data.DataLoader(data, batch_size, num_workers=0): batches   *)
(* in index order, the last one short, none dropped.                       *)
(***************************************************************************)
\* len(dataloader)
NumBatches(data, bs) == (Len(data) + bs - 1) \div bs

\* the examples of batch k (0-based)
BatchOf(data, bs, k) == SubSeq(data, k * bs + 1, Min((k + 1) * bs, Len(data)))

\* the default collate: field f of every example, stacked
Column(batch, f) == [r \in 1..Len(batch) |-> batch[r][f]]

(***************************************************************************)
(* sentiment_analysis                                                      *)
(***************************************************************************)
\* record k of a corpus file
CorpusRecord(k) == << IF k % 2 = 1 THEN <<"a">> ELSE <<"b", "a">>, <<k % 2>> >>

\* the items of BERTDataset(records, 0, 1, tokenizer, maxlen, pad=True, pair=False)
Items(n, tokenizer, maxlen) ==
    [k \in 1..n |-> transform(tokenizer, maxlen, <<CorpusRecord(k)[1]>>).val
                        \o <<np_int32(CorpusRecord(k)[2])>>]

BatchSizes   == {1, 2}
WarmupRatios == {0, 2, 10}     \* in tenths
LogIntervals == {1, 2}

\* what the classifier can answer for a batch of the given size: the model
\* is opaque, every row is one of two softmax outputs (in tenths)
Outputs(rows) == [1..rows -> { <<9, 1>>, <<2, 8>> }]

NoLine == [kind |-> "none", epoch |-> 0, batch |-> 0, acc |-> Zero, divisor |-> 0]

TotalSteps_BySamples(data, bs, epochs) == Len(data) * epochs

\* line 126: t_total = len(train_dataloader) * num_epochs
TotalSteps(data, bs, epochs) == NumBatches(data, bs) * epochs

\* line 127: int(t_total * warmup_ratio), the ratio in tenths
WarmupSteps(total, ratio) == (total * ratio) \div 10

\* the state on reaching line 130
Init ==
    /\ pc = "epoch_head"
    /\ batch_size \in BatchSizes
    /\ num_epochs \in 0..MaxEpochs
    /\ warmup_ratio \in WarmupRatios
    /\ log_interval \in LogIntervals
    /\ \E n \in 0..MaxTrain : data_train = Items(n, "BERTSPTokenizer", 3)
    /\ \E n \in 0..MaxTest : data_test = Items(n, "BERTSPTokenizer", 3)
    /\ t_total = TotalSteps(data_train, batch_size, num_epochs)
    /\ warmup_steps = WarmupSteps(t_total, warmup_ratio)
    /\ e = -1 /\ batch_id = -1 /\ it = 0
    /\ token_ids = <<>> /\ valid_length = <<>> /\ attention_mask = <<>>
    /\ segment_ids = <<>> /\ label = <<>> /\ out = <<>>
    /\ train_accuracy = Zero /\ test_accuracy = Zero
    /\ mode = "train" /\ no_grad = FALSE
    /\ params = 0 /\ grads = {} /\ clipped = FALSE
    /\ opt_steps = 0 /\ sched_steps = 0
    /\ last_line = NoLine
    /\ printed = [batch |-> 0, train |-> 0, test |-> 0]
    /\ model_pt = -1 /\ n_saves = 0
    /\ hist = <<>> /\ steps = <<>> /\ train_batches = 0
    /\ phase_sum = Zero /\ phase_count = 0
    /\ n_zero_grad = 0 /\ n_backward = 0 /\ n_clip = 0
    /\ AccIdle
    /\ DsIdle

foreign == <<accVars, dsVars>>

\* line 130: for e in range(num_epochs)
EpochHead ==
    /\ pc = "epoch_head"
    /\ IF e + 1 < num_epochs
       THEN e' = e + 1 /\ pc' = "reset"
       ELSE e' = e /\ pc' = "done"
    /\ UNCHANGED <<optVars, batch_id, it, batchVars, accumVars, mode, no_grad,
                   trainState, ioVars, histVars, foreign>>

\* lines 131-132
ResetAccumulators ==
    /\ pc = "reset"
    /\ train_accuracy' = Zero
    /\ test_accuracy' = Zero
    /\ pc' = "model_train"
    /\ UNCHANGED <<optVars, e, batch_id, it, batchVars, mode, no_grad,
                   trainState, ioVars, histVars, foreign>>

\* line 135, and the enumeration line 136 starts
ModelTrain ==
    /\ pc = "model_train"
    /\ mode' = "train"
    /\ it' = 0
    /\ hist' = Append(hist, <<"model.train", e, -1>>)
    /\ phase_sum' = Zero /\ phase_count' = 0
    /\ pc' = "train_next"
    /\ UNCHANGED <<optVars, e, batch_id, batchVars, accumVars, no_grad,
                   trainState, ioVars, steps, train_batches, foreign>>

\* line 136: the next (batch_id, (token_ids, valid_length, segment_ids, label)),
\* or the end of the loop
TrainNext ==
    /\ pc = "train_next"
    /\ IF it < NumBatches(data_train, batch_size)
       THEN LET b == BatchOf(data_train, batch_size, it)
            IN  /\ batch_id' = it
                /\ it' = it + 1
                /\ token_ids' = Column(b, 1)
                /\ valid_length' = Column(b, 2)
                /\ segment_ids' = Column(b, 3)
                /\ label' = Column(b, 4)
                /\ hist' = Append(hist, <<"train", e, it>>)
                /\ steps' = <<>>
                /\ pc' = "zero_grad"
       ELSE /\ pc' = "train_print"
            /\ UNCHANGED <<batch_id, it, token_ids, valid_length, segment_ids,
                           label, hist, steps>>
    /\ UNCHANGED <<optVars, e, attention_mask, out, accumVars, mode, no_grad,
                   trainState, ioVars, train_batches, phase_sum, phase_count, foreign>>

ZeroGrad_Forgotten ==
    /\ pc = "zero_grad"
    /\ n_zero_grad' = n_zero_grad + 1
    /\ steps' = Append(steps, "zero_grad")
    /\ pc' = "build_inputs"
    /\ UNCHANGED <<optVars, e, batch_id, it, batchVars, accumVars, mode, no_grad,
                   params, grads, clipped, opt_steps, sched_steps, n_backward, n_clip,
                   ioVars, hist, train_batches, phase_sum, phase_count, foreign>>

\* line 137
ZeroGrad ==
    /\ pc = "zero_grad"
    /\ grads' = {}
    /\ clipped' = FALSE
    /\ n_zero_grad' = n_zero_grad + 1
    /\ steps' = Append(steps, "zero_grad")
    /\ pc' = "build_inputs"
    /\ UNCHANGED <<optVars, e, batch_id, it, batchVars, accumVars, mode, no_grad,
                   params, opt_steps, sched_steps, n_backward, n_clip,
                   ioVars, hist, train_batches, phase_sum, phase_count, foreign>>

\* lines 140-148: the batch goes to the device, the mask and the input
\* embeddings are built
BuildInputs ==
    /\ pc = "build_inputs"
    /\ attention_mask' = gen_attention_mask(token_ids, valid_length)
    /\ steps' = Append(steps, "mask_embed")
    /\ pc' = "forward"
    /\ UNCHANGED <<optVars, e, batch_id, it, token_ids, valid_length, segment_ids,
                   label, out, accumVars, mode, no_grad, trainState, ioVars,
                   hist, train_batches, phase_sum, phase_count, foreign>>

\* line 151
Forward ==
    /\ pc = "forward"
    /\ out' \in Outputs(Len(token_ids))
    /\ steps' = Append(steps, "forward")
    /\ pc' = "loss"
    /\ UNCHANGED <<optVars, e, batch_id, it, token_ids, valid_length, segment_ids,
                   label, attention_mask, accumVars, mode, no_grad, trainState,
                   ioVars, hist, train_batches, phase_sum, phase_count, foreign>>

\* lines 154-155
Loss ==
    /\ pc = "loss"
    /\ steps' = Append(steps, "loss")
    /\ pc' = "backward"
    /\ UNCHANGED <<optVars, e, batch_id, it, batchVars, accumVars, mode, no_grad,
                   trainState, ioVars, hist, train_batches, phase_sum, phase_count,
                   foreign>>

\* line 156: the batch's gradients are added to whatever .grad holds
Backward ==
    /\ pc = "backward"
    /\ grads' = grads \cup {<<e, batch_id>>}
    /\ clipped' = FALSE
    /\ n_backward' = n_backward + 1
    /\ steps' = Append(steps, "backward")
    /\ pc' = "clip"
    /\ UNCHANGED <<optVars, e, batch_id, it, batchVars, accumVars, mode, no_grad,
                   params, opt_steps, sched_steps, n_zero_grad, n_clip,
                   ioVars, hist, train_batches, phase_sum, phase_count, foreign>>

\* line 159
Clip ==
    /\ pc = "clip"
    /\ clipped' = TRUE
    /\ n_clip' = n_clip + 1
    /\ steps' = Append(steps, "clip")
    /\ pc' = "opt_step"
    /\ UNCHANGED <<optVars, e, batch_id, it, batchVars, accumVars, mode, no_grad,
                   params, grads, opt_steps, sched_steps, n_zero_grad, n_backward,
                   ioVars, hist, train_batches, phase_sum, phase_count, foreign>>

\* line 160
OptimizerStep ==
    /\ pc = "opt_step"
    /\ params' = params + 1
    /\ opt_steps' = opt_steps + 1
    /\ steps' = Append(steps, "optimizer_step")
    /\ pc' = "sched_step"
    /\ UNCHANGED <<optVars, e, batch_id, it, batchVars, accumVars, mode, no_grad,
                   grads, clipped, sched_steps, n_zero_grad, n_backward, n_clip,
                   ioVars, hist, train_batches, phase_sum, phase_count, foreign>>

\* line 161
SchedulerStep ==
    /\ pc = "sched_step"
    /\ sched_steps' = sched_steps + 1
    /\ steps' = Append(steps, "scheduler_step")
    /\ pc' = "train_acc"
    /\ UNCHANGED <<optVars, e, batch_id, it, batchVars, accumVars, mode, no_grad,
                   params, grads, clipped, opt_steps, n_zero_grad, n_backward, n_clip,
                   ioVars, hist, train_batches, phase_sum, phase_count, foreign>>

\* line 162
AccumulateTrain ==
    /\ pc = "train_acc"
    /\ \E mi \in torch_max(out) :
        /\ train_accuracy' = RatioAdd(train_accuracy, calc_accuracy(mi, label))
        /\ phase_sum' = RatioAdd(phase_sum, Norm(Cardinality({i \in 1..Len(label) :
                                       mi[i] = label[i]}), Len(label)))
    /\ phase_count' = phase_count + 1
    /\ steps' = Append(steps, "accuracy")
    /\ pc' = "log"
    /\ UNCHANGED <<optVars, e, batch_id, it, batchVars, test_accuracy, mode, no_grad,
                   trainState, ioVars, hist, train_batches, foreign>>

\* lines 164-167: the progress line, the last statement of the loop body
LogProgress ==
    /\ pc = "log"
    /\ IF batch_id % log_interval = 0
       THEN /\ last_line' = [kind |-> "batch", epoch |-> e + 1, batch |-> batch_id + 1,
                              acc |-> RatioDiv(train_accuracy, batch_id + 1),
                              divisor |-> batch_id + 1]
            /\ printed' = [printed EXCEPT !.batch = @ + 1]
       ELSE UNCHANGED <<last_line, printed>>
    /\ train_batches' = train_batches + 1
    /\ pc' = "train_next"
    /\ UNCHANGED <<optVars, e, batch_id, it, batchVars, accumVars, mode, no_grad,
                   trainState, model_pt, n_saves, hist, steps, phase_sum, phase_count,
                   foreign>>

\* line 168.  batch_id is the loop variable of line 136: it is unbound, and
\* the read raises NameError, when no loop has bound it yet.
PrintTrain ==
    /\ pc = "train_print"
    /\ IF batch_id = -1
       THEN /\ pc' = "crashed"
            /\ UNCHANGED <<last_line, printed>>
       ELSE /\ last_line' = [kind |-> "train", epoch |-> e + 1, batch |-> 0,
                              acc |-> RatioDiv(train_accuracy, batch_id + 1),
                              divisor |-> batch_id + 1]
            /\ printed' = [printed EXCEPT !.train = @ + 1]
            /\ pc' = "model_eval"
    /\ UNCHANGED <<optVars, e, batch_id, it, batchVars, accumVars, mode, no_grad,
                   trainState, model_pt, n_saves, histVars, foreign>>

ModelEval_Forgotten ==
    /\ pc = "model_eval"
    /\ no_grad' = TRUE
    /\ it' = 0
    /\ hist' = Append(hist, <<"model.eval", e, -1>>)
    /\ phase_sum' = Zero /\ phase_count' = 0
    /\ pc' = "test_next"
    /\ UNCHANGED <<optVars, e, batch_id, batchVars, accumVars, mode,
                   trainState, ioVars, steps, train_batches, foreign>>

\* lines 171-172, and the enumeration of line 173 starts
ModelEval ==
    /\ pc = "model_eval"
    /\ mode' = "eval"
    /\ no_grad' = TRUE
    /\ it' = 0
    /\ hist' = Append(hist, <<"model.eval", e, -1>>)
    /\ phase_sum' = Zero /\ phase_count' = 0
    /\ pc' = "test_next"
    /\ UNCHANGED <<optVars, e, batch_id, batchVars, accumVars,
                   trainState, ioVars, steps, train_batches, foreign>>

\* line 173
TestNext ==
    /\ pc = "test_next"
    /\ IF it < NumBatches(data_test, batch_size)
       THEN LET b == BatchOf(data_test, batch_size, it)
            IN  /\ batch_id' = it
                /\ it' = it + 1
                /\ token_ids' = Column(b, 1)
                /\ valid_length' = Column(b, 2)
                /\ segment_ids' = Column(b, 3)
                /\ label' = Column(b, 4)
                /\ hist' = Append(hist, <<"test", e, it>>)
                /\ pc' = "test_inputs"
       ELSE /\ pc' = "test_print"
            /\ UNCHANGED <<batch_id, it, token_ids, valid_length, segment_ids,
                           label, hist>>
    /\ UNCHANGED <<optVars, e, attention_mask, out, accumVars, mode, no_grad,
                   trainState, ioVars, steps, train_batches, phase_sum, phase_count,
                   foreign>>

\* lines 175-183
TestInputs ==
    /\ pc = "test_inputs"
    /\ attention_mask' = gen_attention_mask(token_ids, valid_length)
    /\ pc' = "test_forward"
    /\ UNCHANGED <<optVars, e, batch_id, it, token_ids, valid_length, segment_ids,
                   label, out, accumVars, mode, no_grad, trainState, ioVars,
                   histVars, foreign>>

\* line 186
TestForward ==
    /\ pc = "test_forward"
    /\ out' \in Outputs(Len(token_ids))
    /\ pc' = "test_acc"
    /\ UNCHANGED <<optVars, e, batch_id, it, token_ids, valid_length, segment_ids,
                   label, attention_mask, accumVars, mode, no_grad, trainState,
                   ioVars, histVars, foreign>>

AccumulateTest_IntoTrain ==
    /\ pc = "test_acc"
    /\ \E mi \in torch_max(out) :
        /\ train_accuracy' = RatioAdd(train_accuracy, calc_accuracy(mi, label))
        /\ phase_sum' = RatioAdd(phase_sum, Norm(Cardinality({i \in 1..Len(label) :
                                       mi[i] = label[i]}), Len(label)))
    /\ phase_count' = phase_count + 1
    /\ pc' = "test_next"
    /\ UNCHANGED <<optVars, e, batch_id, it, batchVars, test_accuracy, mode, no_grad,
                   trainState, ioVars, hist, steps, train_batches, foreign>>

\* line 189
AccumulateTest ==
    /\ pc = "test_acc"
    /\ \E mi \in torch_max(out) :
        /\ test_accuracy' = RatioAdd(test_accuracy, calc_accuracy(mi, label))
        /\ phase_sum' = RatioAdd(phase_sum, Norm(Cardinality({i \in 1..Len(label) :
                                       mi[i] = label[i]}), Len(label)))
    /\ phase_count' = phase_count + 1
    /\ pc' = "test_next"
    /\ UNCHANGED <<optVars, e, batch_id, it, batchVars, train_accuracy, mode, no_grad,
                   trainState, ioVars, hist, steps, train_batches, foreign>>

\* line 190, the last statement under "with torch.no_grad()".  batch_id is
\* whatever the last loop that ran left in it.
PrintTest ==
    /\ pc = "test_print"
    /\ IF batch_id = -1
       THEN /\ pc' = "crashed"
            /\ UNCHANGED <<last_line, printed, no_grad>>
       ELSE /\ last_line' = [kind |-> "test", epoch |-> e + 1, batch |-> 0,
                              acc |-> RatioDiv(test_accuracy, batch_id + 1),
                              divisor |-> batch_id + 1]
            /\ printed' = [printed EXCEPT !.test = @ + 1]
            /\ no_grad' = FALSE
            /\ pc' = "save"
    /\ UNCHANGED <<optVars, e, batch_id, it, batchVars, accumVars, mode,
                   trainState, model_pt, n_saves, histVars, foreign>>

Save_OnlyAfterLastEpoch ==
    /\ pc = "save"
    /\ IF e + 1 = num_epochs
       THEN model_pt' = params /\ n_saves' = n_saves + 1
       ELSE UNCHANGED <<model_pt, n_saves>>
    /\ pc' = "epoch_head"
    /\ UNCHANGED <<optVars, e, batch_id, it, batchVars, accumVars, mode, no_grad,
                   trainState, last_line, printed, histVars, foreign>>

\* line 192, inside the epoch loop: torch.save(model.state_dict(), "model.pt")
Save ==
    /\ pc = "save"
    /\ model_pt' = params
    /\ n_saves' = n_saves + 1
    /\ pc' = "epoch_head"
    /\ UNCHANGED <<optVars, e, batch_id, it, batchVars, accumVars, mode, no_grad,
                   trainState, last_line, printed, histVars, foreign>>

Next ==
    \/ EpochHead
    \/ ResetAccumulators
    \/ ModelTrain
    \/ TrainNext
    \/ ZeroGrad
    \/ BuildInputs
    \/ Forward
    \/ Loss
    \/ Backward
    \/ Clip
    \/ OptimizerStep
    \/ SchedulerStep
    \/ AccumulateTrain
    \/ LogProgress
    \/ PrintTrain
    \/ ModelEval
    \/ TestNext
    \/ TestInputs
    \/ TestForward
    \/ AccumulateTest
    \/ PrintTest
    \/ Save

Spec == Init /\ [][Next]_vars

(***************************************************************************)
(* Properties of a run                                                     *)
(***************************************************************************)
TrainBody == {"zero_grad", "build_inputs", "forward", "loss", "backward", "clip",
              "opt_step", "sched_step", "train_acc", "log"}
TestBody  == {"test_inputs", "test_forward", "test_acc"}
TestPhase == TestBody \cup {"test_next", "test_print"}

T == NumBatches(data_train, batch_size)
S == NumBatches(data_test, batch_size)

IsPrefix(p, q) == Len(p) <= Len(q) /\ p = SubSeq(q, 1, Len(p))

\* the phases and batches of epoch k, in the order a run must start them
EpochSchedule(k) ==
    <<  <<"model.train", k, -1>>  >> \o [b \in 1..T |-> <<"train", k, b - 1>>] \o
    <<  <<"model.eval", k, -1>>  >> \o [b \in 1..S |-> <<"test", k, b - 1>>]

RECURSIVE RunSchedule(_)
RunSchedule(k) == IF k = 0 THEN <<>> ELSE RunSchedule(k - 1) \o EpochSchedule(k - 1)

Count(kind) == Cardinality({k \in 1..Len(hist) : hist[k][1] = kind})

\* C3 as stated, on when and how often the checkpoint is written: no write
\* while an epoch is still to be run, and not more than one write in a run.
C3_SavedOnceAtEnd ==
    /\ n_saves > 0 => e + 1 = num_epochs
    /\ n_saves <= 1

\* C3 (amended): "model.pt" is written once at the end of every epoch,
\* after that epoch's test phase, with the parameters of that moment; a
\* completed run has written it num_epochs times, the last write holding
\* the final parameters, and has not written it when num_epochs = 0.
C3_SavedEveryEpoch ==
    /\ n_saves = (IF pc \in {"epoch_head", "done"} THEN e + 1 ELSE Max(e, 0))
    /\ n_saves <= printed.test
    /\ n_saves = 0 => model_pt = -1
    /\ (n_saves > 0 /\ pc \in {"epoch_head", "done"}) => model_pt = params
    /\ n_saves > 0 => model_pt = e * T + (IF pc \in {"epoch_head", "done"} THEN T ELSE 0)
    /\ pc = "done" => n_saves = num_epochs

C3_Witness ==
    /\ pc = "done" /\ num_epochs = 2 /\ T = 2
    /\ n_saves = 2 /\ model_pt = 4 /\ params = 4

\* C6: the run starts its phases and batches in schedule order (epoch by
\* epoch: train phase, its batches in loader order, test phase, its
\* batches), a completed run has run exactly num_epochs train/test pairs,
\* and the model is in train mode in every train batch and in eval mode
\* in every test batch.
C6_PhaseOrder ==
    /\ IsPrefix(hist, RunSchedule(num_epochs))
    /\ pc \in TrainBody => (mode = "train" /\ hist[Len(hist)] = <<"train", e, batch_id>>)
    /\ pc \in TestBody => (mode = "eval" /\ hist[Len(hist)] = <<"test", e, batch_id>>)
    /\ pc = "done" =>
          /\ hist = RunSchedule(num_epochs)
          /\ Count("model.train") = num_epochs
          /\ Count("model.eval") = num_epochs

C6_Witness ==
    /\ pc = "done" /\ num_epochs = 2 /\ T = 2 /\ S = 2
    /\ Len(hist) = 12

StepOrder == <<"zero_grad", "mask_embed", "forward", "loss", "backward", "clip",
               "optimizer_step", "scheduler_step", "accuracy">>

StepsBefore ==
    [zero_grad |-> 0, build_inputs |-> 1, forward |-> 2, loss |-> 3, backward |-> 4,
     clip |-> 5, opt_step |-> 6, sched_step |-> 7, train_acc |-> 8, log |-> 9]

\* C7: in every train batch the nine steps happen once each, in order;
\* back-propagation starts on reset gradients, the optimizer steps on the
\* clipped gradients of this batch alone, and the scheduler steps after
\* the optimizer.
C7_TrainStepOrder ==
    /\ pc \in TrainBody =>
          /\ Len(steps) = StepsBefore[pc]
          /\ steps = SubSeq(StepOrder, 1, Len(steps))
    /\ pc = "backward" => grads = {}
    /\ pc = "opt_step" => (clipped /\ grads = {<<e, batch_id>>})
    /\ pc = "sched_step" => opt_steps = sched_steps + 1
    /\ pc \notin TrainBody =>
          /\ n_zero_grad = Count("train") /\ n_backward = Count("train")
          /\ n_clip = Count("train") /\ opt_steps = Count("train")
          /\ sched_steps = Count("train")

C7_Witness ==
    /\ pc = "log" /\ e = 1 /\ batch_id = 1
    /\ steps = StepOrder
    /\ grads = {<<1, 1>>} /\ clipped

\* C8: no step of a test phase changes the parameters, the optimizer or
\* scheduler step counts, the gradients or the train-accuracy accumulator,
\* and none resets, back-propagates or clips.
trainFrame == <<trainState, train_accuracy>>

InTestPhase == pc \in TestPhase

C8_TestPhaseFrame == [][InTestPhase => UNCHANGED trainFrame]_vars

C8_Witness ==
    /\ pc = "test_print" /\ e = 1 /\ S = 2
    /\ test_accuracy # Zero /\ train_accuracy # Zero
    /\ opt_steps = 4

\* C9 as stated: in every state the optimizer steps, the scheduler steps
\* and the train batches processed are equal in number.
C9_CountsAlwaysEqual ==
    /\ opt_steps = sched_steps
    /\ sched_steps = train_batches

\* C9 (amended): whenever no train batch is in progress the number of
\* optimizer steps equals the number of scheduler steps equals the number
\* of train batches processed; inside a batch the three are apart by at
\* most one (batches <= scheduler steps <= optimizer steps <= batches + 1).
\* The count never exceeds t_total = batches per epoch * num_epochs,
\* 0 <= warmup_steps = floor(t_total * warmup_ratio) <= t_total, and a
\* completed run has made exactly t_total steps.
C9_CountsAtBatchBoundary ==
    /\ pc \notin TrainBody => (opt_steps = sched_steps /\ sched_steps = train_batches)
    /\ train_batches <= sched_steps /\ sched_steps <= opt_steps
    /\ opt_steps <= train_batches + 1
    /\ t_total = T * num_epochs
    /\ opt_steps <= t_total
    /\ 0 <= warmup_steps /\ warmup_steps <= t_total
    /\ 10 * warmup_steps <= t_total * warmup_ratio
    /\ t_total * warmup_ratio < 10 * (warmup_steps + 1)
    /\ pc = "done" => opt_steps = t_total

C9_Witness ==
    /\ pc = "done" /\ num_epochs = 2 /\ Len(data_train) = 3 /\ batch_size = 2
    /\ t_total = 4 /\ opt_steps = 4 /\ sched_steps = 4 /\ train_batches = 4
    /\ warmup_ratio = 2 /\ warmup_steps = 0

\* C10: every epoch-level accuracy printed is the sum of its phase's
\* per-batch accuracies in that epoch divided by the number of batches
\* that phase processed in that epoch, and each finished epoch has
\* printed one train and one test accuracy.
C10_EpochAccuracy ==
    /\ pc = "model_eval" =>
          /\ last_line.kind = "train"
          /\ last_line.divisor = phase_count
          /\ RatioMul(last_line.acc, phase_count) = phase_sum
    /\ pc = "save" =>
          /\ last_line.kind = "test"
          /\ last_line.divisor = phase_count
          /\ RatioMul(last_line.acc, phase_count) = phase_sum
          /\ printed.train = e + 1 /\ printed.test = e + 1

====
